---- MODULE Spec2Model ----
(***************************************************************************)
(* JavaGoat chat application: the conversation and generation orchestrator *)
(* (assets/modules/chat.js, image.js, utils.js, storage.js) and the       *)
(* settings shared through the database (app.js, cloud.js, settings.js).  *)
(*                                                                         *)
(* JavaScript strings are TLA+ strings; a macrotask (a user event or the   *)
(* settlement of a pending transport promise) is one action; the microtask *)
(* continuation that resumes the caller after `await sendChatMessage(..)`  *)
(* or `await generateImage(..)` is the action Outer, and no other action   *)
(* is enabled while it is pending.  Timestamps (Date.now()) and the DOM    *)
(* (rendering, toasts) are left out; crypto.randomUUID() is a fresh number.*)
(***************************************************************************)
EXTENDS Integers, Sequences, FiniteSets, TLC

VARIABLES
    conversations,         \* STATE.conversations: sequence of conversations
    activeConversationId,  \* STATE.ui.activeConversationId (NULL or an id)
    isGenerating,          \* STATE.ui.isGenerating
    abortController,       \* STATE.abortController: NULL or an AbortController,
                           \* named by the id of its session's assistant message
    aborted,               \* the controllers whose signal.aborted is true
    mode,                  \* STATE.ui.mode
    settings,              \* STATE.settings
    sessions,              \* async calls of sendChatMessage/generateImage in progress
    nextId,                \* next value of crypto.randomUUID()
    auth,                  \* STATE.auth: isLoggedIn, isGuest, isAdmin
    settingsRef,           \* cloud.js settingsRef: TRUE when it holds a reference
    settingsListenerDetached,  \* cloud.js settingsListenerDetached
    listeners,             \* 'value' callbacks registered at the settings path
    snapshotPending,       \* a 'value' event is due to the registered callbacks
    cloudSyncActive,       \* STATE.security.cloudSyncActive
    cloudSettings,         \* the value at the settings path: {} or one record
    localSettings,         \* localStorage javagoat_local_settings: {} or one record
    saving                 \* saveSettings suspended at `await Cloud.saveCloudSettings()`

\* the state of chat.js and image.js
chatVars == <<conversations, activeConversationId, isGenerating, abortController,
              aborted, mode, sessions, nextId>>

\* the state of app.js (authentication), cloud.js, settings.js and the stored
\* settings
cloudVars == <<auth, settingsRef, settingsListenerDetached, listeners,
               snapshotPending, cloudSyncActive, cloudSettings, localSettings,
               saving>>

vars == <<conversations, activeConversationId, isGenerating, abortController,
          aborted, mode, settings, sessions, nextId, auth, settingsRef,
          settingsListenerDetached, listeners, snapshotPending, cloudSyncActive,
          cloudSettings, localSettings, saving>>

\* ------------------------------------------------------------------ bounds

\* ids (conversations, messages) handed out in one behaviour
MaxIds == 5
\* deltas one response stream carries before it ends
MaxDeltas == 2
\* 'value' callbacks the settings path can hold at a time
MaxListeners == 2

NULL == 0

\* ----------------------------------------------------------------- strings

Char(s, i) == SubSeq(s, i, i)

\* String.prototype.substring(from) with a 0-based index
Substring(s, from) == SubSeq(s, from + 1, Len(s))

\* String.prototype.startsWith
StartsWith(s, p) == Len(s) >= Len(p) /\ SubSeq(s, 1, Len(p)) = p

\* String.prototype.indexOf(p, from): 1-based position of the first occurrence
\* of p at or after position from, 0 when there is none
RECURSIVE IndexOf(_, _, _)
IndexOf(s, p, from) ==
    IF from + Len(p) - 1 > Len(s) THEN 0
    ELSE IF SubSeq(s, from, from + Len(p) - 1) = p THEN from
    ELSE IndexOf(s, p, from + 1)

Includes(s, p) == IndexOf(s, p, 1) # 0

\* String.prototype.split(sep): the pieces between the occurrences of sep
RECURSIVE Split(_, _)
Split(s, sep) ==
    LET i == IndexOf(s, sep, 1) IN
    IF i = 0 THEN <<s>>
    ELSE <<SubSeq(s, 1, i - 1)>> \o Split(SubSeq(s, i + Len(sep), Len(s)), sep)

\* String.prototype.trim, for blanks
RECURSIVE Trim(_)
Trim(s) ==
    IF Len(s) = 0 THEN s
    ELSE IF Char(s, 1) = " " THEN Trim(SubSeq(s, 2, Len(s)))
    ELSE IF Char(s, Len(s)) = " " THEN Trim(SubSeq(s, 1, Len(s) - 1))
    ELSE s

\* applies a per-character translation f to every character of s
RECURSIVE MapChars(_, _)
MapChars(f(_), s) ==
    IF Len(s) = 0 THEN ""
    ELSE f(Char(s, 1)) \o MapChars(f, SubSeq(s, 2, Len(s)))

\* ------------------------------------------------------------- utils.js

\* APP_CONSTANTS.CONVERSATION_TITLE_MAX_LENGTH (state.js)
CONVERSATION_TITLE_MAX_LENGTH == 30

\* APP_CONSTANTS.IMAGE_DEFAULT_SIZE (state.js)
IMAGE_DEFAULT_SIZE == "1024x1024"

\* the cut at maxLength in place of maxLength - 3
truncateTextLate(str, maxLength) ==
    IF Len(str) <= maxLength THEN str
    ELSE SubSeq(str, 1, maxLength) \o "..."

truncateText(str, maxLength) ==
    IF Len(str) <= maxLength THEN str
    ELSE SubSeq(str, 1, maxLength - 3) \o "..."

EscapeChar(c) ==
    CASE c = "&" -> "&amp;"
      [] c = "<" -> "&lt;"
      [] c = ">" -> "&gt;"
      [] OTHER -> c

\* escapeHTML: a text node's innerHTML escapes &, < and >
escapeHTML(str) == MapChars(EscapeChar, str)

\* sanitizeInput throws on a match of one of its patterns; the SQL-comment
\* pattern /(--|#|\/\*|\*\/)/ is the one the inputs of this model can match
SqliDetected(input) ==
    \/ Includes(input, "--")
    \/ Includes(input, "#")
    \/ Includes(input, "/*")
    \/ Includes(input, "*/")

SqliMessage ==
    "Potential SQL injection attempt detected. Please remove suspicious characters."

EncodeChar(c) ==
    CASE c = " " -> "%20"
      [] c = "&" -> "%26"
      [] c = ";" -> "%3B"
      [] c = "<" -> "%3C"
      [] c = ">" -> "%3E"
      [] OTHER -> c

\* encodeURIComponent
encodeURIComponent(str) == MapChars(EncodeChar, str)

\* ------------------------------------------------------- message store

\* a message object; a field the code leaves unset (error, errorMessage,
\* prompt) reads as FALSE or ""
Message(id, role, content, error, errorMessage) ==
    [id |-> id, role |-> role, type |-> "text", content |-> content,
     error |-> error, errorMessage |-> errorMessage, prompt |-> ""]

\* Array.prototype.findIndex(c => c.id === id), 1-based, 0 when absent
RECURSIVE FindIndexFrom(_, _, _)
FindIndexFrom(seq, id, i) ==
    IF i > Len(seq) THEN 0
    ELSE IF seq[i].id = id THEN i
    ELSE FindIndexFrom(seq, id, i + 1)

FindIndex(seq, id) == FindIndexFrom(seq, id, 1)

\* the store the synchronous helpers thread through:
\* [convs, active, next] = STATE.conversations, activeConversationId, next uuid
Store == [convs |-> conversations, active |-> activeConversationId, next |-> nextId]

\* the conversation unshifted whether or not its id is in the list
saveConversationAlwaysUnshift(convs, conversation) == <<conversation>> \o convs

\* Storage.saveConversation: replace in place when the id exists, else unshift
saveConversation(convs, conversation) ==
    LET index == FindIndex(convs, conversation.id) IN
    IF index # 0 THEN [convs EXCEPT ![index] = conversation]
    ELSE <<conversation>> \o convs

\* the conversation filtered out, the active id left as it is
StorageDeleteConversationKeepsActive(st, conversationId) ==
    [st EXCEPT !.convs = SelectSeq(st.convs, LAMBDA c : c.id # conversationId)]

\* Storage.deleteConversation
StorageDeleteConversation(st, conversationId) ==
    [st EXCEPT !.convs = SelectSeq(st.convs, LAMBDA c : c.id # conversationId),
               !.active = IF st.active = conversationId THEN NULL ELSE st.active]

\* Storage.clearConversations
StorageClearConversations(st) ==
    [st EXCEPT !.convs = <<>>, !.active = NULL]

\* startNewConversation(initialPrompt)
startNewConversation(st, initialPrompt) ==
    LET newConversation ==
            [id |-> st.next,
             title |-> truncateText(initialPrompt, CONVERSATION_TITLE_MAX_LENGTH),
             messages |-> <<>>]
    IN  [convs |-> <<newConversation>> \o st.convs,
         active |-> newConversation.id,
         next |-> st.next + 1]

\* unshift in place of push: the message is put in front
addMessageToConversationUnshift(st, message) ==
    LET st1 == IF FindIndex(st.convs, st.active) = 0
               THEN startNewConversation(st,
                        IF message.type = "text" THEN message.content
                        ELSE "Image Generation")
               ELSE st
        idx == FindIndex(st1.convs, st1.active)
        conv == [st1.convs[idx] EXCEPT !.messages = <<message>> \o @]
    IN  [st1 EXCEPT !.convs = saveConversation(st1.convs, conv)]

\* addMessageToConversation(message)
addMessageToConversation(st, message) ==
    LET st1 == IF FindIndex(st.convs, st.active) = 0
               THEN startNewConversation(st,
                        IF message.type = "text" THEN message.content
                        ELSE "Image Generation")
               ELSE st
        idx == FindIndex(st1.convs, st1.active)
        conv == [st1.convs[idx] EXCEPT !.messages = Append(@, message)]
    IN  [st1 EXCEPT !.convs = saveConversation(st1.convs, conv)]

\* the last message of the active conversation patched when the id is not
\* found in it
updateLastMessageContentOrLast(convs, active, messageId, newContent, isError, errorMessage) ==
    LET ci == FindIndex(convs, active) IN
    IF ci = 0 THEN convs
    ELSE LET found == FindIndex(convs[ci].messages, messageId)
             mi == IF found = 0 THEN Len(convs[ci].messages) ELSE found
         IN  IF mi = 0 THEN convs
             ELSE [convs EXCEPT ![ci].messages[mi] =
                      [@ EXCEPT !.content = newContent,
                                !.error = isError,
                                !.errorMessage = errorMessage]]

\* the patch written into the found message, the one before it and every
\* one after it
updateLastMessageContentAround(convs, active, messageId, newContent, isError, errorMessage) ==
    LET ci == FindIndex(convs, active) IN
    IF ci = 0 THEN convs
    ELSE LET mi == FindIndex(convs[ci].messages, messageId) IN
         IF mi = 0 THEN convs
         ELSE [convs EXCEPT ![ci].messages =
                  [k \in 1..Len(@) |->
                      IF k >= mi - 1
                      THEN [@[k] EXCEPT !.content = newContent,
                                        !.error = isError,
                                        !.errorMessage = errorMessage]
                      ELSE @[k]]]

\* updateLastMessageContent(messageId, newContent, isError, errorMessage):
\* patches the message in the ACTIVE conversation, when it is found there
updateLastMessageContent(convs, active, messageId, newContent, isError, errorMessage) ==
    LET ci == FindIndex(convs, active) IN
    IF ci = 0 THEN convs
    ELSE LET mi == FindIndex(convs[ci].messages, messageId) IN
         IF mi = 0 THEN convs
         ELSE [convs EXCEPT ![ci].messages[mi] =
                  [@ EXCEPT !.content = newContent,
                            !.error = isError,
                            !.errorMessage = errorMessage]]

\* every message of every conversation, as a set
AllMessages ==
    UNION { { conversations[c].messages[m] : m \in 1..Len(conversations[c].messages) }
            : c \in 1..Len(conversations) }

\* the message with this id in the conversation with this id, as a set (empty
\* when the conversation or the message is gone)
MessageIn(convId, msgId) ==
    LET ci == FindIndex(conversations, convId) IN
    IF ci = 0 THEN {}
    ELSE { conversations[ci].messages[m] :
             m \in { k \in 1..Len(conversations[ci].messages) :
                       conversations[ci].messages[k].id = msgId } }

\* ------------------------------------------------------ stream decoding

EndsWith(s, p) == Len(s) >= Len(p) /\ SubSeq(s, Len(s) - Len(p) + 1, Len(s)) = p

\* the provider's streaming record {"choices":[{"delta":{"content":"<d>"}}]}
JsonHead == "{\"choices\":[{\"delta\":{\"content\":\""
JsonTail == "\"}}]}"
DeltaJson(d) == JsonHead \o d \o JsonTail

\* a record whose delta carries no content (a role-only delta)
EmptyDeltaJson == "{\"choices\":[{\"delta\":{}}]}"

\* JSON.parse(jsonStr) followed by data.choices[0]?.delta?.content || '':
\* ok is FALSE when the parse or the field access throws
ParseDelta(jsonStr) ==
    IF /\ Len(jsonStr) >= Len(JsonHead) + Len(JsonTail)
       /\ StartsWith(jsonStr, JsonHead)
       /\ EndsWith(jsonStr, JsonTail)
       /\ ~Includes(SubSeq(jsonStr, Len(JsonHead) + 1, Len(jsonStr) - Len(JsonTail)), "\"")
    THEN [ok |-> TRUE,
          delta |-> SubSeq(jsonStr, Len(JsonHead) + 1, Len(jsonStr) - Len(JsonTail))]
    ELSE IF jsonStr = EmptyDeltaJson THEN [ok |-> TRUE, delta |-> ""]
    ELSE [ok |-> FALSE, delta |-> ""]

\* one `data: ...` event as the provider frames it
EventOf(d) == "data: " \o DeltaJson(d) \o "\n\n"

DoneEvent == "data: [DONE]\n\n"

\* an event whose payload is no JSON
MalformedEvent == "data: {oops\n\n"

\* the chunks reader.read() can deliver: one event; a malformed event, an
\* event and the end marker; the two halves of an event cut in the middle
Chunks ==
    { EventOf("Hi"),
      MalformedEvent \o EventOf(" there") \o DoneEvent,
      "data: {\"choices\":[{\"delta\":{\"con",
      "tent\":\"Hi\"}}]}\n\n" }

\* the try/catch around JSON.parse left out: a payload that fails to parse
\* ends the processing of the chunk
RECURSIVE ProcessPartsStopsAtBadEvent(_, _, _, _, _)
ProcessPartsStopsAtBadEvent(parts, i, r, active, messageId) ==
    IF i > Len(parts) THEN r
    ELSE LET part == parts[i]
             jsonStr == Substring(part, 6)
             parsed == ParseDelta(jsonStr)
             event == StartsWith(part, "data: ") /\ jsonStr # "[DONE]"
             r1 == IF event /\ parsed.ok /\ parsed.delta # ""
                   THEN [acc |-> r.acc \o parsed.delta,
                         deltas |-> Append(r.deltas, parsed.delta),
                         convs |-> updateLastMessageContent(r.convs, active, messageId,
                                       r.acc \o parsed.delta, FALSE, "")]
                   ELSE r
         IN  IF event /\ ~parsed.ok THEN r
             ELSE ProcessPartsStopsAtBadEvent(parts, i + 1, r1, active, messageId)

\* the body of chunk.split('\n\n').forEach(part => ...), for parts i..Len(parts);
\* r = [acc, deltas, convs]: aiMessageContent, the deltas applied, the store
RECURSIVE ProcessParts(_, _, _, _, _)
ProcessParts(parts, i, r, active, messageId) ==
    IF i > Len(parts) THEN r
    ELSE LET part == parts[i]
             jsonStr == Substring(part, 6)
             parsed == ParseDelta(jsonStr)
             r1 == IF /\ StartsWith(part, "data: ")
                      /\ jsonStr # "[DONE]"
                      /\ parsed.ok
                      /\ parsed.delta # ""
                   THEN [acc |-> r.acc \o parsed.delta,
                         deltas |-> Append(r.deltas, parsed.delta),
                         convs |-> updateLastMessageContent(r.convs, active, messageId,
                                       r.acc \o parsed.delta, FALSE, "")]
                   ELSE r
         IN  ProcessParts(parts, i + 1, r1, active, messageId)

\* the concatenation D1 + ... + Dn of a sequence of strings
RECURSIVE Concat(_)
Concat(ds) == IF ds = <<>> THEN "" ELSE Head(ds) \o Concat(Tail(ds))

\* ------------------------------------------------------------ sessions

\* what the transport and the provider can answer
NetworkFailure == "Failed to fetch"
AbortFailure == "The user aborted a request."
StatusText == "Too Many Requests"
ProviderMessage == "Rate limit exceeded"
JsonSyntaxFailure == "Unexpected token < in JSON at position 0"

\* error bodies of a non-2xx response: a structured error, a record without an
\* error field, a body that is no JSON
ErrorBodies == { "{\"error\":{\"message\":\"Rate limit exceeded\"}}", "{}", "<html>" }

\* `const errorData = await response.json();
\*  throw new Error(errorData.error ? errorData.error.message : response.statusText)`:
\* the message of the error that reaches the catch block
ErrorOfBody(body, statusText) ==
    IF body = "{\"error\":{\"message\":\"Rate limit exceeded\"}}" THEN ProviderMessage
    ELSE IF body = "{}" THEN statusText
    ELSE JsonSyntaxFailure

StoppedNotice == "\n\n*(Generation stopped by user)*"
ErrorNotice(message) == "\n\n**Error:** " \o message

NoKeyBody == "Error: OpenRouter API key is not configured. Please check settings."
NoKeyDetail == "API key not configured."
NoKeyToast == "OpenRouter API key is not configured in settings."
BusyToast == "Please wait for the current generation to complete or stop it."

\* one asynchronous call of sendChatMessage or generateImage: its local
\* variables and the await it is suspended at (pc); "outer" is the caller's
\* continuation after the call has returned or thrown.  conv, deltas, outcome,
\* requested and fallback record what happened and are read by no action.
Session(kind, caller, pc, input, prompt, signal, target, conv, outcome, requested) ==
    [kind |-> kind, caller |-> caller, pc |-> pc, input |-> input, prompt |-> prompt,
     signal |-> signal, target |-> target, conv |-> conv,
     acc |-> "", deltas |-> <<>>,
     outcome |-> outcome, errorMessage |-> "", thrown |-> "",
     requested |-> requested, fallback |-> FALSE, request |-> <<>>]

\* no continuation is waiting in the microtask queue
Quiet == \A i \in 1..Len(sessions) : sessions[i].pc # "outer"

\* the sessions between their start and their finalization
InFlight == { i \in 1..Len(sessions) : sessions[i].pc # "outer" }

\* showToast(type, message) changes the DOM only
showToast(type, message) == TRUE

RemoveAt(seq, i) == SubSeq(seq, 1, i - 1) \o SubSeq(seq, i + 1, Len(seq))

\* `!STATE.ui.activeConversationId || STATE.conversations.find(c => c.id ===
\*  STATE.ui.activeConversationId)?.messages.length === 0`
NeedsNewConversation(st) ==
    \/ st.active = NULL
    \/ /\ FindIndex(st.convs, st.active) # 0
       /\ Len(st.convs[FindIndex(st.convs, st.active)].messages) = 0

\* the guard left out: a call during a generation is let through
BusyNever == FALSE

\* `if (STATE.ui.isGenerating) { showToast('warning', ...); return; }`:
\* the guard of handleSendMessage and regenerateResponse
Busy == isGenerating

\* the credential check left out
KeyMissingNever == FALSE

\* `if (!STATE.settings.openrouterKey)`
KeyMissing == settings.openrouterKey = ""

\* STATE.settings.systemPrompt
SystemPrompt ==
    "You are JavaGoat, a helpful and secure AI assistant. Provide concise and accurate responses, format code blocks with markdown, and be friendly."

\* the system message and the history without a filter on the message type
messagesForApiUnfiltered(messages, prompt) ==
    <<[role |-> "system", content |-> SystemPrompt]>>
    \o [k \in 1..Len(messages) |->
           [role |-> messages[k].role, content |-> messages[k].content]]
    \o <<[role |-> "user", content |-> prompt]>>

\* `const messagesForApi = [system, ...messages.filter(text).map(role, content),
\*  {role: 'user', content: prompt}]`, the body of the request
messagesForApi(messages, prompt) ==
    LET text == SelectSeq(messages, LAMBDA m : m.type = "text") IN
    <<[role |-> "system", content |-> SystemPrompt]>>
    \o [k \in 1..Len(text) |-> [role |-> text[k].role, content |-> text[k].content]]
    \o <<[role |-> "user", content |-> prompt]>>

\* sendChatMessage(prompt) up to its first await, called with the store st by
\* a caller that has set isGenerating
sendChatMessage(st, input, prompt, caller) ==
    IF KeyMissing THEN
        LET st1 == addMessageToConversation([st EXCEPT !.next = @ + 1],
                       Message(st.next, "user", prompt, FALSE, ""))
            aiId == st1.next
            st2 == addMessageToConversation([st1 EXCEPT !.next = @ + 1],
                       Message(aiId, "ai", NoKeyBody, TRUE, NoKeyDetail))
        IN  /\ st2.next <= MaxIds + 1
            /\ conversations' = st2.convs
            /\ activeConversationId' = st2.active
            /\ nextId' = st2.next
            /\ isGenerating' = TRUE
            /\ abortController' = abortController
            /\ showToast("error", NoKeyToast)
            /\ sessions' = Append(sessions,
                   Session("chat", caller, "outer", input, prompt, NULL, aiId,
                           st2.active, "nokey", FALSE))
    ELSE
        LET st1 == IF NeedsNewConversation(st) THEN startNewConversation(st, prompt)
                   ELSE st
        IN  IF FindIndex(st1.convs, st1.active) = 0 THEN
                /\ conversations' = st1.convs
                /\ activeConversationId' = st1.active
                /\ nextId' = st1.next
                /\ isGenerating' = TRUE
                /\ abortController' = abortController
                /\ showToast("error", "No active conversation found.")
                /\ sessions' = Append(sessions,
                       Session("chat", caller, "outer", input, prompt, NULL, NULL,
                               NULL, "noconv", FALSE))
            ELSE
                LET userId == st1.next
                    aiMessageId == st1.next + 1
                    controller == aiMessageId
                    st2 == addMessageToConversation([st1 EXCEPT !.next = @ + 2],
                               Message(userId, "user", prompt, FALSE, ""))
                    st3 == addMessageToConversation(st2,
                               Message(aiMessageId, "ai", "", FALSE, ""))
                IN  /\ st3.next <= MaxIds + 1
                    /\ conversations' = st3.convs
                    /\ activeConversationId' = st3.active
                    /\ nextId' = st3.next
                    /\ isGenerating' = TRUE
                    /\ abortController' = controller
                    /\ sessions' = Append(sessions,
                           [Session("chat", caller, "fetch", input, prompt, controller,
                                    aiMessageId, st3.active, "", TRUE)
                              EXCEPT !.request =
                                  messagesForApi(
                                      st2.convs[FindIndex(st2.convs, st2.active)].messages,
                                      prompt)])

\* the catch block of sendChatMessage for an error with this message, then
\* its finally block
ChatCatch(i, message) ==
    LET s == sessions[i]
        cancelled == s.signal \in aborted
        content == s.acc \o (IF cancelled THEN StoppedNotice ELSE ErrorNotice(message))
    IN  /\ conversations' = updateLastMessageContent(conversations, activeConversationId,
                                s.target, content, TRUE, message)
        /\ showToast(IF cancelled THEN "info" ELSE "error",
                 IF cancelled THEN "AI response generation stopped."
                 ELSE "AI chat error: " \o message)
        /\ sessions' = [sessions EXCEPT ![i] =
               [s EXCEPT !.pc = "outer", !.acc = content,
                         !.outcome = IF cancelled THEN "cancelled" ELSE "error",
                         !.errorMessage = message]]
        /\ isGenerating' = FALSE
        /\ abortController' = NULL
        /\ UNCHANGED <<activeConversationId, aborted, mode, settings, nextId>>

\* `await fetch(...)` resolves with a response
FetchResolves(i) ==
    /\ Quiet
    /\ sessions[i].kind = "chat" /\ sessions[i].pc = "fetch"
    /\ sessions[i].signal \notin aborted
    /\ \E ok \in BOOLEAN :
           sessions' = [sessions EXCEPT ![i].pc = IF ok THEN "read" ELSE "errbody"]
    /\ UNCHANGED <<conversations, activeConversationId, isGenerating, abortController,
                   aborted, mode, settings, nextId>>

\* the pending fetch / response.json() / reader.read() rejects: with an
\* AbortError once the signal is aborted, with a network error otherwise
TransportRejects(i) ==
    /\ Quiet
    /\ sessions[i].kind = "chat" /\ sessions[i].pc \in {"fetch", "errbody", "read"}
    /\ ChatCatch(i, IF sessions[i].signal \in aborted THEN AbortFailure
                    ELSE NetworkFailure)

\* `await response.json()` of a non-2xx response settles and the error is thrown
ErrorBodyArrives(i) ==
    /\ Quiet
    /\ sessions[i].kind = "chat" /\ sessions[i].pc = "errbody"
    /\ sessions[i].signal \notin aborted
    /\ \E body \in ErrorBodies : ChatCatch(i, ErrorOfBody(body, StatusText))

\* a chunk delivered and applied whether or not the signal is aborted
ChunkArrivesAfterAbort(i) ==
    /\ Quiet
    /\ sessions[i].kind = "chat" /\ sessions[i].pc = "read"
    /\ \E chunk \in Chunks :
        LET s == sessions[i]
            r == ProcessParts(Split(chunk, "\n\n"), 1,
                     [acc |-> s.acc, deltas |-> s.deltas, convs |-> conversations],
                     activeConversationId, s.target)
        IN  /\ Len(r.deltas) <= MaxDeltas
            /\ conversations' = r.convs
            /\ sessions' = [sessions EXCEPT ![i] =
                   [s EXCEPT !.acc = r.acc, !.deltas = r.deltas]]
    /\ UNCHANGED <<activeConversationId, isGenerating, abortController, aborted, mode,
                   settings, nextId>>

\* `await reader.read()` delivers a chunk, which is decoded and applied
ChunkArrives(i) ==
    /\ Quiet
    /\ sessions[i].kind = "chat" /\ sessions[i].pc = "read"
    /\ sessions[i].signal \notin aborted
    /\ \E chunk \in Chunks :
        LET s == sessions[i]
            r == ProcessParts(Split(chunk, "\n\n"), 1,
                     [acc |-> s.acc, deltas |-> s.deltas, convs |-> conversations],
                     activeConversationId, s.target)
        IN  /\ Len(r.deltas) <= MaxDeltas
            /\ conversations' = r.convs
            /\ sessions' = [sessions EXCEPT ![i] =
                   [s EXCEPT !.acc = r.acc, !.deltas = r.deltas]]
    /\ UNCHANGED <<activeConversationId, isGenerating, abortController, aborted, mode,
                   settings, nextId>>

\* sendChatMessage without its finally block on the normal end
StreamEndsKeepsFlag(i) ==
    /\ Quiet
    /\ sessions[i].kind = "chat" /\ sessions[i].pc = "read"
    /\ sessions[i].signal \notin aborted
    /\ sessions' = [sessions EXCEPT ![i].pc = "outer", ![i].outcome = "normal"]
    /\ UNCHANGED <<conversations, activeConversationId, isGenerating, abortController,
                   aborted, mode, settings, nextId>>

\* `await reader.read()` reports done: the loop breaks and finally runs
StreamEnds(i) ==
    /\ Quiet
    /\ sessions[i].kind = "chat" /\ sessions[i].pc = "read"
    /\ sessions[i].signal \notin aborted
    /\ sessions' = [sessions EXCEPT ![i].pc = "outer", ![i].outcome = "normal"]
    /\ isGenerating' = FALSE
    /\ abortController' = NULL
    /\ UNCHANGED <<conversations, activeConversationId, aborted, mode, settings,
                   nextId>>

\* ------------------------------------------------------------ image.js

\* the names chat.js exports: what `import * as Chat from './chat.js'` holds
ChatExports ==
    { "setupEventListeners", "setMode", "addMessageToConversation",
      "startNewConversation", "loadConversation", "deleteConversation",
      "clearAllConversations", "stopGenerating", "regenerateResponse" }

\* reading Chat.STATE.conversations when the namespace Chat has no STATE
UndefinedFailure == "Cannot read properties of undefined (reading 'conversations')"

PlaceholderText == "Generating image..."
NoUrlFailure == "Image generation failed or returned no URL."
OpenRouterNoKeyFailure == "OpenRouter API key is not configured for image generation."
OpenRouterNoModelFailure == "OpenRouter image model ID is not configured."
OpenRouterNoUrlFailure == "OpenRouter did not return an image URL."
PollinationsStatusFailure == "Pollinations.ai returned status 500"
PollinationsTypeFailure ==
    "Pollinations.ai did not return an image. It might be an error page."
OpenRouterImageUrl == "https://openrouter.ai/generated/1.png"

PollinationsUrl(prompt) ==
    "https://image.pollinations.ai/prompt/" \o encodeURIComponent(prompt)
        \o "?width=1024&height=1024"

generateWithLoremFlickr ==
    LET size == Split(IMAGE_DEFAULT_SIZE, "x")
        width == size[1]
        height == size[2]
    IN  "https://loremflickr.com/" \o width \o "/" \o height \o "/abstract,random"

\* the assignment to activeConversation.messages[messageIndex] in the finally
\* block of generateImage: the placeholder in its final form
ImagePatched(convs, active, messageId, prompt, imageUrl, errorOccurred, errorMessage) ==
    LET ci == FindIndex(convs, active)
        mi == IF ci = 0 THEN 0 ELSE FindIndex(convs[ci].messages, messageId)
    IN  IF mi = 0 THEN convs
        ELSE [convs EXCEPT ![ci].messages[mi] =
                [@ EXCEPT !.type = IF errorOccurred THEN "text" ELSE "image",
                          !.content = IF errorOccurred
                                      THEN "Image generation failed: " \o errorMessage
                                      ELSE imageUrl,
                          !.prompt = prompt,
                          !.error = errorOccurred,
                          !.errorMessage = errorMessage]]

\* `Chat.STATE.conversations` in the finally block of generateImage throws
\* when the namespace Chat holds no STATE
FinallyLookupThrows == "STATE" \notin ChatExports

\* the finally block of generateImage: the placeholder is patched in the
\* active conversation, the flag and the controller are cleared; when the
\* lookup throws, the exception leaves generateImage with none of it done
ImageFinally(i, imageUrl, errorOccurred, errorMessage, outcome, fellBack) ==
    LET s == sessions[i]
        done == [s EXCEPT !.pc = "outer", !.acc = imageUrl, !.outcome = outcome,
                          !.errorMessage = errorMessage, !.fallback = fellBack]
    IN  /\ IF ~FinallyLookupThrows
           THEN /\ conversations' = ImagePatched(conversations, activeConversationId,
                                        s.target, s.prompt, imageUrl, errorOccurred,
                                        errorMessage)
                /\ isGenerating' = FALSE
                /\ abortController' = NULL
                /\ sessions' = [sessions EXCEPT ![i] = done]
           ELSE /\ sessions' = [sessions EXCEPT ![i] =
                                   [done EXCEPT !.thrown = UndefinedFailure]]
                /\ UNCHANGED <<conversations, isGenerating, abortController>>
        /\ UNCHANGED <<activeConversationId, aborted, mode, settings, nextId>>

\* the catch block of generateImage for an error with this message (with the
\* LoremFlickr fallback when pollinations is the selected provider), then finally
ImageCatch(i, message) ==
    IF settings.imageProvider = "pollinations"
    THEN /\ showToast("info", "Pollinations.ai failed, falling back to LoremFlickr...")
         /\ ImageFinally(i, generateWithLoremFlickr, FALSE, "", "fallback", TRUE)
    ELSE /\ showToast("error", "Image generation failed: " \o message)
         /\ ImageFinally(i, sessions[i].acc, TRUE, message, "failed", FALSE)

\* generateImage(prompt) up to its first await, called with the store st
generateImage(st, input, prompt) ==
    LET st1 == addMessageToConversation([st EXCEPT !.next = @ + 1],
                   Message(st.next, "user", prompt, FALSE, ""))
        aiImageMessageId == st1.next
        st2 == addMessageToConversation([st1 EXCEPT !.next = @ + 1],
                   Message(aiImageMessageId, "ai", PlaceholderText, FALSE, ""))
        controller == aiImageMessageId
        provider == settings.imageProvider
        pc == IF provider = "pollinations" THEN "pfetch"
              ELSE IF /\ provider = "openrouter"
                      /\ settings.openrouterKey # ""
                      /\ settings.imageModel # ""
                   THEN "orfetch"
              ELSE "threw"
        failure == IF provider # "openrouter" THEN NoUrlFailure
                   ELSE IF settings.openrouterKey = "" THEN OpenRouterNoKeyFailure
                   ELSE OpenRouterNoModelFailure
        started == Session("image", "send", pc, input, prompt, controller,
                           aiImageMessageId, st2.active, "", pc # "threw")
        done == [started EXCEPT !.pc = "outer", !.outcome = "failed",
                                !.errorMessage = failure]
    IN  /\ st2.next <= MaxIds + 1
        /\ activeConversationId' = st2.active
        /\ nextId' = st2.next
        /\ IF pc # "threw"
           THEN /\ conversations' = st2.convs
                /\ isGenerating' = TRUE
                /\ abortController' = controller
                /\ sessions' = Append(sessions, started)
                /\ showToast("info", "Generating image...")
           ELSE \* the provider throws before any await: catch and finally run
                \* right after the messages are appended and the controller set
                /\ showToast("error", "Image generation failed: " \o failure)
                /\ IF ~FinallyLookupThrows
                   THEN /\ conversations' = ImagePatched(st2.convs, st2.active,
                                                aiImageMessageId, prompt, "", TRUE,
                                                failure)
                        /\ isGenerating' = FALSE
                        /\ abortController' = NULL
                        /\ sessions' = Append(sessions, done)
                   ELSE /\ conversations' = st2.convs
                        /\ isGenerating' = TRUE
                        /\ abortController' = controller
                        /\ sessions' = Append(sessions,
                               [done EXCEPT !.thrown = UndefinedFailure])

\* the validating request of generateWithPollinations settles with a response
PollinationsResponds(i) ==
    /\ Quiet
    /\ sessions[i].kind = "image" /\ sessions[i].pc = "pfetch"
    /\ sessions[i].signal \notin aborted
    /\ \E response \in {"image", "html", "500"} :
         IF response = "image"
         THEN ImageFinally(i, PollinationsUrl(sessions[i].prompt), FALSE, "",
                           "success", FALSE)
         ELSE ImageCatch(i, IF response = "500" THEN PollinationsStatusFailure
                            ELSE PollinationsTypeFailure)

\* the POST of generateWithOpenRouter settles with a response
OpenRouterResponds(i) ==
    /\ Quiet
    /\ sessions[i].kind = "image" /\ sessions[i].pc = "orfetch"
    /\ sessions[i].signal \notin aborted
    /\ \E ok \in BOOLEAN :
           sessions' = [sessions EXCEPT ![i].pc = IF ok THEN "orjson" ELSE "orerr"]
    /\ UNCHANGED <<conversations, activeConversationId, isGenerating, abortController,
                   aborted, mode, settings, nextId>>

\* `await response.json()` of generateWithOpenRouter settles: the error body
\* of a non-2xx response, or the result with or without a usable URL
OpenRouterBodyArrives(i) ==
    /\ Quiet
    /\ sessions[i].kind = "image" /\ sessions[i].pc \in {"orerr", "orjson"}
    /\ sessions[i].signal \notin aborted
    /\ IF sessions[i].pc = "orerr"
       THEN \E body \in ErrorBodies : ImageCatch(i, ErrorOfBody(body, StatusText))
       ELSE \E hasUrl \in BOOLEAN :
              IF hasUrl
              THEN ImageFinally(i, OpenRouterImageUrl, FALSE, "", "success", FALSE)
              ELSE ImageCatch(i, OpenRouterNoUrlFailure)

\* a pending request of generateImage rejects: AbortError once the signal is
\* aborted, a network error otherwise
ImageTransportRejects(i) ==
    /\ Quiet
    /\ sessions[i].kind = "image"
    /\ sessions[i].pc \in {"pfetch", "orfetch", "orerr", "orjson"}
    /\ ImageCatch(i, IF sessions[i].signal \in aborted THEN AbortFailure
                     ELSE NetworkFailure)

\* -------------------------------------------------------------- chat.js

\* what the user can type into the chat input
Inputs == { " ", "a<b", "drop the users table -- now, please" }

\* STATE.settings as loaded at start-up
SettingsChoices ==
    { [openrouterKey |-> "sk-or-1", imageProvider |-> "pollinations", imageModel |-> "sdxl"],
      [openrouterKey |-> "sk-or-1", imageProvider |-> "openrouter", imageModel |-> "sdxl"],
      [openrouterKey |-> "", imageProvider |-> "openrouter", imageModel |-> "sdxl"],
      [openrouterKey |-> "", imageProvider |-> "dalle", imageModel |-> ""] }

InternalErrorBody == "An internal error occurred while processing your request."

\* handleSendMessage: the click on Send with this text in the input
handleSendMessage(input) ==
    LET prompt == Trim(input) IN
    /\ Quiet
    /\ UNCHANGED <<aborted, mode, settings>>
    /\ IF prompt = "" THEN
           /\ showToast("warning", "Please enter a message or prompt.")
           /\ UNCHANGED <<conversations, activeConversationId, isGenerating,
                          abortController, sessions, nextId>>
       ELSE IF Busy THEN
           /\ showToast("warning", BusyToast)
           /\ UNCHANGED <<conversations, activeConversationId, isGenerating,
                          abortController, sessions, nextId>>
       ELSE IF SqliDetected(prompt) THEN
           \* Security.filterSQLi throws: catch, then finally
           LET st1 == addMessageToConversation([Store EXCEPT !.next = @ + 1],
                          Message(nextId, "user", prompt, FALSE, ""))
               st2 == addMessageToConversation([st1 EXCEPT !.next = @ + 1],
                          Message(st1.next, "ai", InternalErrorBody, TRUE, SqliMessage))
               st == IF mode = "chat" THEN st2 ELSE Store
           IN  /\ st.next <= MaxIds + 1
               /\ showToast("error", SqliMessage)
               /\ conversations' = st.convs
               /\ activeConversationId' = st.active
               /\ nextId' = st.next
               /\ isGenerating' = FALSE
               /\ abortController' = NULL
               /\ UNCHANGED sessions
       ELSE IF mode = "chat" THEN
           sendChatMessage(Store, prompt, escapeHTML(prompt), "send")
       ELSE
           generateImage(Store, prompt, escapeHTML(prompt))

\* the continuation of handleSendMessage / regenerateResponse after the
\* awaited call has returned or thrown: their catch and finally blocks
Outer(i) ==
    LET s == sessions[i]
        st1 == addMessageToConversation([Store EXCEPT !.next = @ + 1],
                   Message(nextId, "user", s.input, FALSE, ""))
        st2 == addMessageToConversation([st1 EXCEPT !.next = @ + 1],
                   Message(st1.next, "ai", InternalErrorBody, TRUE, s.thrown))
        st == IF s.caller = "send" /\ s.thrown # "" /\ mode = "chat" THEN st2 ELSE Store
    IN  /\ s.pc = "outer"
        /\ conversations' = st.convs
        /\ activeConversationId' = st.active
        /\ nextId' = st.next
        /\ s.thrown # "" => showToast("error", s.thrown)
        /\ isGenerating' = FALSE
        /\ abortController' = IF s.caller = "send" THEN NULL ELSE abortController
        /\ sessions' = RemoveAt(sessions, i)
        /\ aborted' = aborted \ {s.signal}
        /\ UNCHANGED <<mode, settings>>

\* setMode(mode)
setMode(m) ==
    /\ Quiet
    /\ mode # m
    /\ IF isGenerating
       THEN showToast("warning", BusyToast) /\ UNCHANGED mode
       ELSE /\ mode' = m
            /\ showToast("info", IF m = "chat" THEN "Switched to Chat Mode."
                             ELSE "Switched to Image Generation Mode.")
    /\ UNCHANGED <<conversations, activeConversationId, isGenerating, abortController,
                   aborted, settings, sessions, nextId>>

\* the New Chat button: startNewConversation() with its default title
NewChat ==
    /\ Quiet
    /\ nextId <= MaxIds
    /\ LET st == startNewConversation(Store, "New Chat") IN
         /\ conversations' = st.convs
         /\ activeConversationId' = st.active
         /\ nextId' = st.next
    /\ UNCHANGED <<isGenerating, abortController, aborted, mode, settings, sessions>>

\* loadConversation(conversationId), from a click on a sidebar entry
loadConversation(conversationId) ==
    /\ Quiet
    /\ activeConversationId # conversationId
    /\ activeConversationId' = conversationId
    /\ UNCHANGED <<conversations, isGenerating, abortController, aborted, mode,
                   settings, sessions, nextId>>

\* deleteConversation(conversationId); csrfOk is Security.verifyCsrfToken's answer
deleteConversation(conversationId, csrfOk) ==
    /\ Quiet
    /\ IF csrfOk
       THEN LET st == StorageDeleteConversation(Store, conversationId) IN
              /\ conversations' = st.convs
              /\ activeConversationId' = st.active
       ELSE /\ showToast("error", "Security error: CSRF token mismatch.")
            /\ UNCHANGED <<conversations, activeConversationId>>
    /\ UNCHANGED <<isGenerating, abortController, aborted, mode, settings, sessions,
                   nextId>>

\* clearAllConversations()
clearAllConversations(csrfOk) ==
    /\ Quiet
    /\ IF csrfOk
       THEN LET st == StorageClearConversations(Store) IN
              /\ conversations' = st.convs
              /\ activeConversationId' = st.active
       ELSE /\ showToast("error", "Security error: CSRF token mismatch.")
            /\ UNCHANGED <<conversations, activeConversationId>>
    /\ UNCHANGED <<isGenerating, abortController, aborted, mode, settings, sessions,
                   nextId>>

\* the controller dropped instead of aborted
stopGeneratingDropsController ==
    /\ Quiet
    /\ abortController' = NULL
    /\ UNCHANGED <<conversations, activeConversationId, isGenerating, aborted,
                   mode, settings, sessions, nextId>>

\* a second call takes the abort back
stopGeneratingToggles ==
    /\ Quiet
    /\ IF abortController # NULL
       THEN aborted' = IF abortController \in aborted
                       THEN aborted \ {abortController}
                       ELSE aborted \cup {abortController}
       ELSE UNCHANGED aborted
    /\ UNCHANGED <<conversations, activeConversationId, isGenerating, abortController,
                   mode, settings, sessions, nextId>>

\* stopGenerating()
stopGenerating ==
    /\ Quiet
    /\ IF abortController # NULL
       THEN aborted' = aborted \cup {abortController}
       ELSE showToast("info", "No active generation to stop.") /\ UNCHANGED aborted
    /\ UNCHANGED <<conversations, activeConversationId, isGenerating, abortController,
                   mode, settings, sessions, nextId>>

\* messages.slice().reverse().find(msg => msg.role === 'user' && msg.type === 'text'):
\* 1-based index of the last user text message at or before i, 0 when none
RECURSIVE LastUserTextIndex(_, _)
LastUserTextIndex(messages, i) ==
    IF i = 0 THEN 0
    ELSE IF messages[i].role = "user" /\ messages[i].type = "text" THEN i
    ELSE LastUserTextIndex(messages, i - 1)

\* messages.findIndex(msg => msg.id === messages.at(-1)?.id && msg.role === 'ai')
RECURSIVE LastAIMessageIndexFrom(_, _)
LastAIMessageIndexFrom(messages, i) ==
    IF i > Len(messages) THEN 0
    ELSE IF messages[i].id = messages[Len(messages)].id /\ messages[i].role = "ai" THEN i
    ELSE LastAIMessageIndexFrom(messages, i + 1)

\* splice one position early: the message before the last one is removed
SpliceBefore(messages, index) == RemoveAt(messages, index - 1)

\* activeConversation.messages.splice(lastAIMessageIndex, 1)
Splice(messages, index) == RemoveAt(messages, index)

\* the early return placed after the flag has been raised
NothingToRegenerateSticky ==
    /\ isGenerating' = TRUE
    /\ UNCHANGED <<conversations, activeConversationId, abortController, sessions,
                   nextId>>

\* `showToast('info', ...); return;` of regenerateResponse when there is
\* nothing to regenerate: nothing is changed
NothingToRegenerate ==
    UNCHANGED <<conversations, activeConversationId, isGenerating, abortController,
                sessions, nextId>>

\* regenerateResponse()
regenerateResponse ==
    LET ci == FindIndex(conversations, activeConversationId)
        messages == conversations[ci].messages
        ui == LastUserTextIndex(messages, Len(messages))
        ai == LastAIMessageIndexFrom(messages, 1)
        removed == IF ai # 0 THEN Splice(messages, ai) ELSE messages
        st == [Store EXCEPT !.convs = [conversations EXCEPT ![ci].messages = removed]]
        idle == UNCHANGED <<conversations, activeConversationId, isGenerating,
                            abortController, sessions, nextId>>
    IN  /\ Quiet
        /\ UNCHANGED <<aborted, mode, settings>>
        /\ IF Busy THEN
               showToast("warning", BusyToast) /\ idle
           ELSE IF ci = 0 \/ Len(messages) < 2 THEN
               /\ showToast("info", "No previous AI response to regenerate.")
               /\ NothingToRegenerate
           ELSE IF ui = 0 THEN
               /\ showToast("info", "No user message found to regenerate from.")
               /\ NothingToRegenerate
           ELSE
               /\ showToast("info", "Regenerating AI response...")
               /\ sendChatMessage(st, messages[ui].content, messages[ui].content, "regen")

\* ------------------------------------- app.js, cloud.js, settings.js

\* the default settings of state.js, as clearLocalSettings restores them
DefaultSettings ==
    [openrouterKey |-> "", imageProvider |-> "pollinations",
     imageModel |-> "stabilityai/stable-diffusion-xl-base-1.0"]

\* `{ ...a, ...b }`
Merge(a, b) ==
    [k \in DOMAIN a \cup DOMAIN b |-> IF k \in DOMAIN b THEN b[k] ELSE a[k]]

\* Storage.loadLocalSettings: the stored settings merged over STATE.settings
loadLocalSettings(current, stored) ==
    IF stored = {} THEN current
    ELSE Merge(current, CHOOSE r \in stored : TRUE)

\* the check left out: every user passes
isAdminAlways == TRUE

\* Security.isAdmin()
isAdmin == auth.isAdmin

\* listenToCloudSettings() for the user a; db is Firebase.getDatabase()
listenToCloudSettings(a, db) ==
    IF ~a.isLoggedIn \/ a.isGuest \/ ~db \/ ~settingsListenerDetached
    THEN UNCHANGED <<settingsRef, listeners, snapshotPending>>
    ELSE /\ settingsRef' = TRUE
         /\ listeners' = listeners + 1
         /\ snapshotPending' = TRUE

\* the handler of Auth.onAuthStateChanged for a signed-in user
AuthSignedIn(admin, db) ==
    /\ listeners < MaxListeners
    /\ auth' = [isLoggedIn |-> TRUE, isGuest |-> FALSE, isAdmin |-> admin]
    /\ listenToCloudSettings(auth', db)
    /\ UNCHANGED <<settings, settingsListenerDetached, cloudSyncActive, cloudSettings,
                   localSettings, saving>>
    /\ UNCHANGED chatVars

\* stopListeningToCloudSettings()
stopListeningToCloudSettings ==
    IF settingsRef /\ ~settingsListenerDetached
    THEN /\ listeners' = 0
         /\ snapshotPending' = FALSE
         /\ settingsRef' = FALSE
         /\ settingsListenerDetached' = TRUE
         /\ cloudSyncActive' = FALSE
    ELSE UNCHANGED <<listeners, snapshotPending, settingsRef, settingsListenerDetached,
                     cloudSyncActive>>

\* the handler of Auth.onAuthStateChanged for no user: the listener is
\* stopped, the local data of a full logout is cleared and the local
\* settings are loaded
AuthSignedOut ==
    /\ auth.isLoggedIn
    /\ auth' = [auth EXCEPT !.isLoggedIn = FALSE, !.isAdmin = FALSE]
    /\ stopListeningToCloudSettings
    /\ IF ~auth.isGuest
       THEN /\ conversations' = <<>>
            /\ activeConversationId' = NULL
            /\ localSettings' = {}
            /\ settings' = DefaultSettings
       ELSE /\ settings' = loadLocalSettings(settings, localSettings)
            /\ UNCHANGED <<conversations, activeConversationId, localSettings>>
    /\ UNCHANGED <<cloudSettings, saving>>
    /\ UNCHANGED <<isGenerating, abortController, aborted, mode, sessions, nextId>>

\* the 'value' callback of listenToCloudSettings runs with a snapshot
Snapshot ==
    /\ listeners > 0 /\ snapshotPending
    /\ snapshotPending' = FALSE
    /\ IF cloudSettings # {}
       THEN /\ settings' = Merge(settings, CHOOSE r \in cloudSettings : TRUE)
            /\ cloudSyncActive' = TRUE
       ELSE /\ cloudSyncActive' = FALSE
            /\ UNCHANGED settings
    /\ settingsListenerDetached' = FALSE
    /\ UNCHANGED <<auth, settingsRef, listeners, cloudSettings, localSettings, saving>>
    /\ UNCHANGED chatVars

\* the error callback of listenToCloudSettings runs: the database has
\* cancelled the subscription
ListenerError ==
    /\ listeners > 0
    /\ listeners' = 0
    /\ snapshotPending' = FALSE
    /\ cloudSyncActive' = FALSE
    /\ settingsListenerDetached' = TRUE
    /\ UNCHANGED <<auth, settings, settingsRef, cloudSettings, localSettings, saving>>
    /\ UNCHANGED chatVars

\* saveCloudSettings() for the user a: the value at the settings path after
\* the call; db is Firebase.getDatabase(), ok tells whether set() is accepted
saveCloudSettings(a, db, ok, value) ==
    IF ~a.isAdmin THEN cloudSettings
    ELSE IF ~db THEN cloudSettings
    ELSE IF ok THEN {value}
    ELSE cloudSettings

\* saveSettings(): the click on Save in the settings panel, up to its await;
\* form holds the fields of the panel, masked tells whether the key field
\* shows '********'
saveSettings(form, masked, csrfOk, db, ok) ==
    /\ ~saving
    /\ IF ~isAdmin
       THEN /\ showToast("error", "You do not have permission to save settings.")
            /\ UNCHANGED <<settings, cloudSettings, snapshotPending, saving>>
       ELSE IF ~csrfOk
       THEN /\ showToast("error", "Security error: CSRF token mismatch.")
            /\ UNCHANGED <<settings, cloudSettings, snapshotPending, saving>>
       ELSE /\ settings' = [form EXCEPT !.openrouterKey =
                               IF masked THEN settings.openrouterKey ELSE @]
            /\ cloudSettings' = saveCloudSettings(auth, db, ok, settings')
            /\ snapshotPending' =
                   (snapshotPending \/ (listeners > 0 /\ cloudSettings' # cloudSettings))
            /\ saving' = TRUE
    /\ UNCHANGED <<auth, settingsRef, settingsListenerDetached, listeners,
                   cloudSyncActive, localSettings>>
    /\ UNCHANGED chatVars

\* saveSettings() behind its await: Storage.saveLocalSettings()
SaveSettingsResumes ==
    /\ saving
    /\ saving' = FALSE
    /\ localSettings' = {settings}
    /\ UNCHANGED <<auth, settings, settingsRef, settingsListenerDetached, listeners,
                   snapshotPending, cloudSyncActive, cloudSettings>>
    /\ UNCHANGED chatVars

\* toggleTheme(): Storage.saveLocalSettings() with the current settings
toggleTheme ==
    /\ localSettings # {settings}
    /\ localSettings' = {settings}
    /\ UNCHANGED <<auth, settings, settingsRef, settingsListenerDetached, listeners,
                   snapshotPending, cloudSyncActive, cloudSettings, saving>>
    /\ UNCHANGED chatVars

\* the value at the settings path is set from another client
RemoteWrite(value) ==
    /\ cloudSettings # {value}
    /\ cloudSettings' = {value}
    /\ snapshotPending' = (snapshotPending \/ listeners > 0)
    /\ UNCHANGED <<auth, settings, settingsRef, settingsListenerDetached, listeners,
                   cloudSyncActive, localSettings, saving>>
    /\ UNCHANGED chatVars

\* ------------------------------------------------------- specification

Init ==
    /\ conversations = <<>>
    /\ activeConversationId = NULL
    /\ isGenerating = FALSE
    /\ abortController = NULL
    /\ aborted = {}
    /\ mode = "chat"
    /\ settings \in SettingsChoices
    /\ sessions = <<>>
    /\ nextId = 1
    /\ auth = [isLoggedIn |-> FALSE, isGuest |-> FALSE, isAdmin |-> FALSE]
    /\ settingsRef = FALSE
    /\ settingsListenerDetached = TRUE
    /\ listeners = 0
    /\ snapshotPending = FALSE
    /\ cloudSyncActive = FALSE
    /\ cloudSettings = {}
    /\ localSettings = {}
    /\ saving = FALSE

ConversationIds == { conversations[c].id : c \in 1..Len(conversations) }

SessionStep ==
    \E i \in 1..Len(sessions) :
        /\ \/ FetchResolves(i)
           \/ TransportRejects(i)
           \/ ErrorBodyArrives(i)
           \/ ChunkArrives(i)
           \/ StreamEnds(i)
           \/ PollinationsResponds(i)
           \/ OpenRouterResponds(i)
           \/ OpenRouterBodyArrives(i)
           \/ ImageTransportRejects(i)
           \/ Outer(i)
        /\ UNCHANGED cloudVars

UserStep ==
    \/ \E input \in Inputs : handleSendMessage(input) /\ UNCHANGED cloudVars
    \/ regenerateResponse /\ UNCHANGED cloudVars
    \/ stopGenerating /\ UNCHANGED cloudVars
    \/ \E m \in {"chat", "image"} : setMode(m) /\ UNCHANGED cloudVars
    \/ NewChat /\ UNCHANGED cloudVars
    \/ \E id \in ConversationIds : loadConversation(id) /\ UNCHANGED cloudVars
    \/ \E id \in ConversationIds, csrfOk \in BOOLEAN :
           deleteConversation(id, csrfOk) /\ UNCHANGED cloudVars
    \/ \E csrfOk \in BOOLEAN : clearAllConversations(csrfOk) /\ UNCHANGED cloudVars

Next == UserStep \/ SessionStep

Spec == Init /\ [][Next]_vars

\* every pending transport operation eventually settles, and the microtask
\* queue is drained
FairSpec == Spec /\ WF_vars(SessionStep)

\* the events of authentication, of the settings panel and of the database
CloudStep ==
    \/ \E admin \in BOOLEAN, db \in BOOLEAN : AuthSignedIn(admin, db)
    \/ AuthSignedOut
    \/ Snapshot
    \/ ListenerError
    \/ \E form \in SettingsChoices, masked, csrfOk, db, ok \in BOOLEAN :
           saveSettings(form, masked, csrfOk, db, ok)
    \/ SaveSettingsResumes
    \/ toggleTheme
    \/ \E value \in SettingsChoices : RemoteWrite(value)

\* the settings of the application with no generation under way
CloudSpec == Init /\ [][CloudStep]_vars

\* --------------------------------------------------------------- claims

\* the coordinator is Idle: no generation, no controller
Idle == ~isGenerating /\ abortController = NULL

\* C1: a send or a regenerateResponse issued while isGenerating is true
\* creates no controller, appends or modifies no message in any conversation,
\* and leaves isGenerating and the existing controller unchanged
C1_BusyCallIsRejected ==
    [][ (isGenerating /\ ((\E input \in Inputs : handleSendMessage(input))
                          \/ regenerateResponse))
        => UNCHANGED <<conversations, activeConversationId, isGenerating,
                       abortController, aborted, sessions, nextId>> ]_vars

\* a generation is in flight and the event loop is free to run a handler
C1_Witness ==
    /\ isGenerating /\ Quiet /\ abortController # NULL
    /\ \E i \in InFlight : sessions[i].deltas # <<>>

\* C2: at most one generation session is in flight at any time; while one is
\* in flight isGenerating is set, and when none is left the flag is reset and
\* the controller released, so that a second one begins only after that
C2_OneSession ==
    /\ Len(sessions) <= 1
    /\ InFlight # {} => isGenerating
    /\ sessions = <<>> => Idle

\* a second generation is in flight after an earlier one has finished
C2_Witness ==
    \E i \in InFlight : \E m \in AllMessages :
        m.role = "ai" /\ ~m.error /\ m.id # sessions[i].target

\* C3: when a text generation ends normally, the content of its target
\* message is the concatenation of the deltas it received, in order
C3_NormalEndContent ==
    \A i \in 1..Len(sessions) :
        LET s == sessions[i] IN
        (s.kind = "chat" /\ s.pc = "outer" /\ s.outcome = "normal")
        => \A m \in MessageIn(s.conv, s.target) : m.content = Concat(s.deltas)

\* C4: when a text generation is cancelled after k deltas, the content of its
\* target message is those k deltas followed by the cancellation notice, and
\* the message is not marked as an error
C4_CancelledContent ==
    \A i \in 1..Len(sessions) :
        LET s == sessions[i] IN
        (s.kind = "chat" /\ s.pc = "outer" /\ s.outcome = "cancelled")
        => \A m \in MessageIn(s.conv, s.target) :
               /\ m.content = Concat(s.deltas) \o StoppedNotice
               /\ m.error = FALSE

\* C5: every generation session eventually brings the coordinator back to
\* Idle (isGenerating false, no controller), whatever its outcome, given that
\* every pending transport operation settles
C5_ReturnsToIdle == isGenerating ~> Idle

\* a session has ended with an exception thrown inside it, the flag still set
C5_Witness ==
    \E i \in 1..Len(sessions) :
        sessions[i].pc = "outer" /\ sessions[i].thrown # "" /\ isGenerating

\* C6: when the pollinations provider fails, the fallback provider is used
\* and the target message is finalized as an image message with error false
\* whose URL is the fallback URL, which depends on the image dimensions only
C6_FallbackFinalized ==
    \A i \in 1..Len(sessions) :
        LET s == sessions[i] IN
        (s.kind = "image" /\ s.pc = "outer" /\ s.outcome = "fallback")
        => /\ s.fallback
           /\ \A m \in MessageIn(s.conv, s.target) :
                  /\ m.type = "image"
                  /\ m.error = FALSE
                  /\ m.content = generateWithLoremFlickr

\* C7: with the openrouter image provider and no credential, no request is
\* issued, no fallback is tried, and the target message is finalized as an
\* error message (type text, error true) whose detail says that the key is
\* not configured
C7_NoKeyImageFinalized ==
    \A i \in 1..Len(sessions) :
        LET s == sessions[i] IN
        (/\ s.kind = "image" /\ s.pc = "outer"
         /\ settings.imageProvider = "openrouter" /\ settings.openrouterKey = "")
        => /\ ~s.requested
           /\ ~s.fallback
           /\ \A m \in MessageIn(s.conv, s.target) :
                  /\ m.type = "text"
                  /\ m.error = TRUE
                  /\ Includes(m.errorMessage, "not configured")

\* the 1-based positions of the user text messages of a message list
UserTextPositions(messages) ==
    { k \in 1..Len(messages) : messages[k].role = "user" /\ messages[k].type = "text" }

Max(S) == CHOOSE x \in S : \A y \in S : y <= x

C9_RegenerateNoOp ==
    [][ LET ci == FindIndex(conversations, activeConversationId)
        IN  (/\ ~isGenerating
             /\ (ci = 0 \/ Len(conversations[ci].messages) < 2)
             /\ regenerateResponse)
            => /\ ~isGenerating'
               /\ UNCHANGED <<conversations, activeConversationId, abortController,
                              aborted, sessions, nextId>> ]_vars

\* the coordinator is Idle on an active conversation that holds no message
C9_Witness ==
    /\ Idle /\ Quiet
    /\ FindIndex(conversations, activeConversationId) # 0
    /\ Len(conversations[FindIndex(conversations, activeConversationId)].messages) < 2
    /\ Len(conversations) >= 2

\* C10: with no credential a text generation issues no request and creates
\* no controller; it appends the user message and one finalized assistant
\* error message (error true, the fixed body), and the coordinator is back
\* in Idle as soon as the call has returned
C10_NoKeyChat ==
    /\ [][ (/\ settings.openrouterKey = ""
            /\ Len(sessions') > Len(sessions)
            /\ sessions'[Len(sessions')].kind = "chat")
           => LET started == sessions'[Len(sessions')]
                  bi == FindIndex(conversations, started.conv)
                  before == IF bi = 0 THEN <<>> ELSE conversations[bi].messages
                  after == conversations'[FindIndex(conversations', started.conv)].messages
                  n == Len(after)
              IN  /\ ~started.requested
                  /\ started.signal = NULL
                  /\ started.pc = "outer"
                  /\ abortController' = NULL
                  /\ started.conv = activeConversationId'
                  /\ n >= 2
                  /\ n - 2 \in {Len(before), Len(before) - 1}
                  /\ SubSeq(after, 1, n - 2) = SubSeq(before, 1, n - 2)
                  /\ after[n - 1].role = "user" /\ ~after[n - 1].error
                  /\ after[n - 1].content = started.prompt
                  /\ after[n] = Message(started.target, "ai", NoKeyBody, TRUE,
                                        NoKeyDetail) ]_vars
    /\ [][ (\E i \in 1..Len(sessions) :
               /\ sessions[i].kind = "chat" /\ sessions[i].pc = "outer"
               /\ settings.openrouterKey = "")
           => (sessions' = <<>> /\ ~isGenerating' /\ abortController' = NULL) ]_vars

\* a text generation has returned without a credential
C10_Witness ==
    \E i \in 1..Len(sessions) :
        /\ sessions[i].kind = "chat" /\ sessions[i].pc = "outer"
        /\ settings.openrouterKey = "" /\ ~sessions[i].requested
        /\ sessions[i].outcome = "nokey"

\* C11: when a text generation fails for a reason other than cancellation
\* after k deltas, its target message is finalized with the k deltas followed
\* by the error notice as content, error true, and the failure's message as
\* error detail
C11_FailedContent ==
    \A i \in 1..Len(sessions) :
        LET s == sessions[i] IN
        (s.kind = "chat" /\ s.pc = "outer" /\ s.outcome = "error")
        => \A m \in MessageIn(s.conv, s.target) :
               /\ m.content = Concat(s.deltas) \o ErrorNotice(s.errorMessage)
               /\ m.error = TRUE
               /\ m.errorMessage = s.errorMessage

\* C12: every image generation, on whichever branch, ends with the final
\* form of its target message written to the store, isGenerating false and
\* the controller null
C12_ImageAlwaysFinalized ==
    \A i \in 1..Len(sessions) :
        LET s == sessions[i] IN
        (s.kind = "image" /\ s.pc = "outer")
        => /\ ~isGenerating
           /\ abortController = NULL
           /\ \A m \in MessageIn(s.conv, s.target) :
                  /\ m.content # PlaceholderText
                  /\ m.type = (IF m.error THEN "text" ELSE "image")

\* C13: stopGenerating called during a generation aborts the current
\* controller, the one the session in flight listens to; called while Idle
\* it changes no message, conversation, flag or controller
C13_StopAbortsOrNothing ==
    [][ stopGenerating
        => IF abortController # NULL
           THEN /\ abortController \in aborted'
                /\ InFlight # {}
                /\ \A i \in InFlight : sessions[i].signal = abortController
                /\ UNCHANGED <<conversations, activeConversationId, isGenerating,
                               abortController, sessions, nextId, mode, settings>>
           ELSE UNCHANGED vars ]_vars

\* the controller of the session in flight has been aborted
C13_Witness ==
    /\ Quiet /\ isGenerating
    /\ \E i \in InFlight :
           sessions[i].signal = abortController /\ sessions[i].signal \in aborted

Deltas == { "Hi", " there" }

\* the deltas of the well-formed events of a chunk, in their order
RECURSIVE WellFormedFrom(_, _)
WellFormedFrom(parts, i) ==
    IF i > Len(parts) THEN <<>>
    ELSE LET ds == { d \in Deltas : parts[i] = "data: " \o DeltaJson(d) }
         IN  (IF ds = {} THEN <<>> ELSE <<CHOOSE d \in ds : TRUE>>)
             \o WellFormedFrom(parts, i + 1)

WellFormedDeltas(chunk) == WellFormedFrom(Split(chunk, "\n\n"), 1)

\* what the session at position i makes of a chunk in the current state
Decoded(i, chunk) ==
    ProcessParts(Split(chunk, "\n\n"), 1,
        [acc |-> sessions[i].acc, deltas |-> sessions[i].deltas, convs |-> conversations],
        activeConversationId, sessions[i].target)

\* C15: an event whose payload fails to parse is skipped and the generation
\* goes on: whatever a chunk holds, every well-formed delta in it is applied,
\* in order, after the deltas applied before, and the target message is not
\* marked as an error
C15_MalformedEventSkipped ==
    \A i \in InFlight :
        LET s == sessions[i] IN
        (s.kind = "chat" /\ s.pc = "read")
        => /\ s.acc = Concat(s.deltas)
           /\ \A m \in MessageIn(s.conv, s.target) : ~m.error
           /\ \A chunk \in Chunks :
                 LET r == Decoded(i, chunk) IN
                 /\ r.deltas = s.deltas \o WellFormedDeltas(chunk)
                 /\ r.acc = s.acc \o Concat(WellFormedDeltas(chunk))
                 /\ \A c \in 1..Len(r.convs) :
                       \A k \in 1..Len(r.convs[c].messages) :
                          r.convs[c].messages[k].id = s.target
                          => ~r.convs[c].messages[k].error

\* a delta was applied, then the chunk with the malformed event arrived and
\* the delta that follows the malformed event was applied as well
C15_Witness ==
    \E i \in InFlight :
        /\ sessions[i].pc = "read"
        /\ sessions[i].deltas = <<"Hi", " there">>
        /\ \E m \in MessageIn(sessions[i].conv, sessions[i].target) :
               m.content = "Hi there" /\ ~m.error

\* C16: the deltas applied do not depend on how the response text is cut
\* into chunks: a text that arrives as two consecutive chunks yields the
\* deltas it yields when it arrives as one chunk
C16_ChunkingIndependent ==
    \A i \in InFlight :
        LET s == sessions[i] IN
        (s.kind = "chat" /\ s.pc = "read")
        => \A c1, c2 \in Chunks :
              (c1 \o c2) \in Chunks
              => LET first == Decoded(i, c1)
                     second == ProcessParts(Split(c2, "\n\n"), 1, first,
                                   activeConversationId, s.target)
                 IN  second.deltas = Decoded(i, c1 \o c2).deltas

\* C17: once the end marker [DONE] has been seen, no delta of a later event
\* is applied, be it in the same chunk or in a later one: the delta that
\* arrives in the chunk ending with the marker is the last one applied, and
\* an event behind the marker in a chunk yields no delta
C17_NothingAfterDone ==
    \A i \in 1..Len(sessions) :
        LET s == sessions[i] IN
        s.kind = "chat"
        => /\ \A k \in 1..(Len(s.deltas) - 1) : s.deltas[k] # " there"
           /\ s.pc = "read"
              => Decoded(i, DoneEvent \o EventOf("Hi")).deltas = s.deltas

\* C18: a text generation for prompt P started with no conversation and with
\* a credential creates one conversation titled with the truncated P and
\* leaves its messages as exactly the user message with content P and the
\* assistant message whose content is the concatenation of the streamed
\* deltas. The session that was started with no conversation is the one
\* that holds the first three ids: conversation 1, messages 2 and 3
C18_FirstSendScenario ==
    \A i \in 1..Len(sessions) :
        LET s == sessions[i] IN
        (/\ s.kind = "chat" /\ s.pc = "outer" /\ s.outcome = "normal"
         /\ s.conv = 1 /\ s.target = 3)
        => /\ Cardinality({ c \in 1..Len(conversations) : conversations[c].id = 1 }) <= 1
           /\ \A c \in 1..Len(conversations) :
                 conversations[c].id = 1
                 => /\ conversations[c].title
                         = truncateText(s.prompt, CONVERSATION_TITLE_MAX_LENGTH)
                    /\ conversations[c].messages
                         = << Message(2, "user", s.prompt, FALSE, ""),
                              Message(3, "ai", Concat(s.deltas), FALSE, "") >>

\* the session has failed: no credential, no conversation, a provider or
\* transport error, or an exception
Failed(s) ==
    \/ s.outcome \in {"nokey", "noconv", "error", "failed"}
    \/ s.thrown # ""

\* C19: every failure of a send or regenerate request leaves a message with
\* error true in the transcript: when the handler of a failed request has
\* returned, some conversation holds an error message written for it
C19_FailureLeavesMessage ==
    [][ \A i \in 1..Len(sessions) :
          (sessions[i].pc = "outer" /\ Failed(sessions[i]) /\ sessions' = <<>>)
          => \E c \in 1..Len(conversations') :
               \E k \in 1..Len(conversations'[c].messages) :
                  /\ conversations'[c].messages[k].error
                  /\ conversations'[c].messages[k].id >= sessions[i].target ]_vars

\* the ids of the messages of the active conversation, none when there is no
\* active conversation
ActiveMessageIds ==
    LET ci == FindIndex(conversations, activeConversationId) IN
    IF ci = 0 THEN {}
    ELSE { conversations[ci].messages[k].id : k \in 1..Len(conversations[ci].messages) }

\* C20: patching a message by an id that is not in the active conversation,
\* or with no active conversation, leaves every conversation and every
\* message unchanged
C20_UnknownIdPatchesNothing ==
    \A messageId \in (0..nextId) \ ActiveMessageIds :
        \A isError \in BOOLEAN :
            updateLastMessageContent(conversations, activeConversationId, messageId,
                "Hi", isError, NetworkFailure) = conversations

\* a delta of a generation in flight was patched while its target message
\* was not in the active conversation: the message lacks it
C20_Witness ==
    \E i \in InFlight :
        /\ sessions[i].deltas # <<>>
        /\ sessions[i].target \notin ActiveMessageIds
        /\ \E m \in MessageIn(sessions[i].conv, sessions[i].target) :
               m.content # sessions[i].acc

\* messages a caller can hand to addMessageToConversation in the current
\* state: a user text message, an assistant placeholder, an image message
AppendedMessages ==
    { Message(nextId, "user", "a&lt;b", FALSE, ""),
      Message(nextId, "ai", "", FALSE, ""),
      [Message(nextId, "ai", generateWithLoremFlickr, FALSE, "") EXCEPT !.type = "image"] }

\* the messages of the active conversation of a store, none without one
ActiveMessages(st) ==
    LET ci == FindIndex(st.convs, st.active) IN
    IF ci = 0 THEN <<>> ELSE st.convs[ci].messages

\* C21: after addMessageToConversation(M) the message list of the active
\* conversation ends with M, unchanged, and the earlier messages are the
\* same, in the same order
C21_AppendRoundTrip ==
    \A M \in AppendedMessages :
        LET st == [Store EXCEPT !.next = @ + 1]
            after == addMessageToConversation(st, M)
        IN  /\ FindIndex(after.convs, after.active) # 0
            /\ ActiveMessages(after) = Append(ActiveMessages(st), M)
            /\ FindIndex(st.convs, st.active) # 0 => after.active = st.active

\* messages have been appended to a conversation that held messages already
C21_Witness ==
    /\ Len(ActiveMessages(Store)) >= 3
    /\ ActiveMessages(Store)[1].role = "user"

\* C22: on a non-success response to the text request the failure message
\* kept as error detail is the provider's message when the body is a
\* structured error, and the transport status text otherwise, that is for a
\* body without an error field and for a body that cannot be parsed. A
\* failed text session whose error is not the transport's own failure has
\* had a non-success response
C22_ErrorDetailOfResponse ==
    \A i \in 1..Len(sessions) :
        LET s == sessions[i] IN
        (/\ s.kind = "chat" /\ s.pc = "outer" /\ s.outcome = "error"
         /\ s.errorMessage # NetworkFailure)
        => /\ s.errorMessage \in {ProviderMessage, StatusText}
           /\ \A m \in MessageIn(s.conv, s.target) : m.errorMessage = s.errorMessage

\* C23: when openrouter is the selected image provider and it fails (key or
\* model missing, non-success response, response without a usable URL,
\* transport error), no fallback provider is used and the target message is
\* finalized as type text with error true; the fallback URL is the content
\* of a message only when pollinations is the selected provider
C23_OpenRouterFailureSurfaces ==
    /\ \A i \in 1..Len(sessions) :
           LET s == sessions[i] IN
           (/\ s.kind = "image" /\ s.pc = "outer" /\ s.outcome = "failed"
            /\ settings.imageProvider = "openrouter")
           => /\ ~s.fallback
              /\ \A m \in MessageIn(s.conv, s.target) :
                     m.type = "text" /\ m.error = TRUE
    /\ \A m \in AllMessages :
           m.content = generateWithLoremFlickr
           => settings.imageProvider = "pollinations"

\* C24: when an image generation has ended, its placeholder, at the same
\* position and with the same id, is either an image message (content the
\* resulting URL, prompt the original prompt, error false) or an error
\* message (type text, content the failure summary, error true, detail the
\* underlying message); it is never left as 'Generating image...'
C24_ImageFinalForms ==
    \A i \in 1..Len(sessions) :
        LET s == sessions[i] IN
        (s.kind = "image" /\ s.pc = "outer")
        => \A m \in MessageIn(s.conv, s.target) :
               \/ /\ m.type = "image"
                  /\ m.content = s.acc
                  /\ m.prompt = s.prompt
                  /\ m.error = FALSE
               \/ /\ m.type = "text"
                  /\ m.content = "Image generation failed: " \o s.errorMessage
                  /\ m.error = TRUE
                  /\ m.errorMessage = s.errorMessage

\* C25: an image generation that was cancelled by stopGenerating, with
\* either provider, ends with its target message finalized and not marked
\* as an error
C25_CancelledImageNotError ==
    \A i \in 1..Len(sessions) :
        LET s == sessions[i] IN
        (s.kind = "image" /\ s.pc = "outer" /\ s.signal \in aborted)
        => \A m \in MessageIn(s.conv, s.target) :
               m.content # PlaceholderText /\ m.error = FALSE

\* the role and content of the text messages of a message list, in order
RECURSIVE TextTurns(_)
TextTurns(messages) ==
    IF messages = <<>> THEN <<>>
    ELSE (IF Head(messages).type = "text"
          THEN <<[role |-> Head(messages).role, content |-> Head(messages).content]>>
          ELSE <<>>) \o TextTurns(Tail(messages))

\* a message list with an image message inserted after position p
WithImageAt(messages, p) ==
    SubSeq(messages, 1, p)
    \o <<[Message(0, "ai", generateWithLoremFlickr, FALSE, "") EXCEPT !.type = "image"]>>
    \o SubSeq(messages, p + 1, Len(messages))

\* the step starts a text request
StartsTextRequest ==
    /\ Len(sessions') = Len(sessions) + 1
    /\ sessions'[Len(sessions')].kind = "chat"
    /\ sessions'[Len(sessions')].pc = "fetch"

\* C26: the message sequence of a text request is one system message, then
\* the role and content of every text message of the active conversation in
\* stored order (the user message just appended included, image messages
\* and the assistant placeholder, appended afterwards, excluded), then the
\* new prompt once more as the final user turn: the last two entries both
\* carry the new prompt
C26_OutboundSequence ==
    /\ [][StartsTextRequest =>
            LET s == sessions'[Len(sessions')]
                ci == FindIndex(conversations', activeConversationId')
                stored == conversations'[ci].messages
                n == Len(stored)
                history == SubSeq(stored, 1, n - 1)
                r == s.request
            IN  /\ ci # 0 /\ n >= 2
                /\ stored[n].id = s.target /\ stored[n].content = ""
                /\ r = <<[role |-> "system", content |-> SystemPrompt]>>
                       \o TextTurns(history)
                       \o <<[role |-> "user", content |-> s.prompt]>>
                /\ r[Len(r) - 1] = [role |-> "user", content |-> s.prompt]
                /\ r[Len(r)] = r[Len(r) - 1]]_vars
    /\ [](\A c \in 1..Len(conversations) :
            \A p \in 0..Len(conversations[c].messages) :
                messagesForApi(WithImageAt(conversations[c].messages, p), "a&lt;b")
                = <<[role |-> "system", content |-> SystemPrompt]>>
                  \o TextTurns(conversations[c].messages)
                  \o <<[role |-> "user", content |-> "a&lt;b"]>>)

\* a text request is pending whose history holds an earlier round
C26_Witness ==
    \E i \in 1..Len(sessions) :
        /\ sessions[i].kind = "chat" /\ sessions[i].pc = "fetch"
        /\ Len(sessions[i].request) >= 5
        /\ sessions[i].request[2].content = sessions[i].prompt
        /\ sessions[i].request[3].role = "ai"

\* the step creates a conversation from the prompt of its first message
CreatesConversationFromPrompt ==
    /\ Len(conversations') = Len(conversations) + 1
    /\ conversations'[1].id \notin ConversationIds
    /\ conversations'[1].messages # <<>>

\* T is the title that the prompt P gets with the maximum length L
IsTitleOf(T, P, L) ==
    /\ Len(P) <= L => T = P
    /\ Len(P) > L =>
          /\ Len(T) = L
          /\ \A k \in 1..(L - 3) : Char(T, k) = Char(P, k)
          /\ \A k \in (L - 2)..L : Char(T, k) = "."
    /\ Len(T) <= L

\* C27: the title of a conversation created from a prompt P with maximum
\* length L is P itself when P has at most L characters and otherwise the
\* first L - 3 characters of P followed by '...'; the title is never longer
\* than L
C27_TitleTruncated ==
    /\ [][CreatesConversationFromPrompt =>
            IsTitleOf(conversations'[1].title, conversations'[1].messages[1].content,
                      CONVERSATION_TITLE_MAX_LENGTH)]_vars
    /\ [](\A m \in AllMessages :
            \A n \in (CONVERSATION_TITLE_MAX_LENGTH - 2)..(CONVERSATION_TITLE_MAX_LENGTH + 2) :
                LET P == SubSeq(m.content, 1, IF n < Len(m.content) THEN n ELSE Len(m.content)) IN
                IsTitleOf(truncateText(P, CONVERSATION_TITLE_MAX_LENGTH), P,
                          CONVERSATION_TITLE_MAX_LENGTH))

\* a conversation created from a prompt longer than the maximum
C27_Witness ==
    \E c \in 1..Len(conversations) :
        /\ conversations[c].messages # <<>>
        /\ Len(conversations[c].messages[1].content) > CONVERSATION_TITLE_MAX_LENGTH
        /\ conversations[c].title = "drop the users table -- now..."

\* the sequence of message ids of the conversation with this id in this list
MessageIds(convs, convId) ==
    LET messages == convs[FindIndex(convs, convId)].messages IN
    [k \in 1..Len(messages) |-> messages[k].id]

\* after is before followed by ids that were never handed out
AppendedTo(before, after) ==
    /\ Len(before) <= Len(after)
    /\ SubSeq(after, 1, Len(before)) = before
    /\ \A k \in (Len(before) + 1)..Len(after) :
           /\ after[k] >= nextId
           /\ \A j \in (Len(before) + 1)..(k - 1) : after[j] < after[k]

\* C28: within a conversation that stays in the list, a step leaves the
\* sequence of message ids unchanged or appends new ids at its end, except
\* regenerateResponse, which first removes the last message of the active
\* conversation, an assistant message; nothing is inserted in the middle,
\* reordered or removed otherwise
C28_AppendOnly ==
    [][\A id \in ConversationIds :
          FindIndex(conversations', id) # 0 =>
              LET before == MessageIds(conversations, id)
                  after == MessageIds(conversations', id)
                  last == conversations[FindIndex(conversations, id)].messages[Len(before)]
              IN  \/ AppendedTo(before, after)
                  \/ /\ regenerateResponse
                     /\ id = activeConversationId
                     /\ before # <<>> /\ last.role = "ai"
                     /\ AppendedTo(SubSeq(before, 1, Len(before) - 1), after)]_vars

\* a regeneration has removed the last message of a conversation and
\* appended the messages of the new round behind the ones that stayed
C28_Witness ==
    \E i \in 1..Len(sessions) :
        LET s == sessions[i] IN
        /\ s.caller = "regen"
        /\ FindIndex(conversations, s.conv) # 0
        /\ LET ids == MessageIds(conversations, s.conv) IN
           /\ Len(ids) >= 3
           /\ ids[Len(ids)] = s.target
           /\ \E k \in 1..(Len(ids) - 1) : ids[k + 1] > ids[k] + 1

\* the message m of the conversation convId is the target of a generation
\* that has not yet left sendChatMessage or generateImage
OwnedByRunningSession(convId, m) ==
    \E i \in 1..Len(sessions) :
        /\ sessions[i].pc # "outer"
        /\ sessions[i].conv = convId
        /\ sessions[i].target = m.id

\* C29: from the placeholder to the end of the session, a generation changes
\* the content, error and error detail of its own target message only: every
\* other message of every conversation, the user message of the same round
\* included, keeps all its fields, and the target keeps its id, role and type
C29_OnlyTargetMutated ==
    [][\A id \in ConversationIds :
          FindIndex(conversations', id) # 0 =>
              LET before == conversations[FindIndex(conversations, id)].messages
                  after == conversations'[FindIndex(conversations', id)].messages
              IN  \A k \in 1..Len(before) :
                      (k <= Len(after) /\ after[k].id = before[k].id)
                      => \/ after[k] = before[k]
                         \/ /\ SessionStep
                            /\ OwnedByRunningSession(id, before[k])
                            /\ after[k] = [before[k] EXCEPT
                                              !.content = after[k].content,
                                              !.error = after[k].error,
                                              !.errorMessage = after[k].errorMessage]]_vars

\* deltas have been written into the target of a running text generation
\* and the user message of the same round stands unchanged before it
C29_Witness ==
    \E i \in 1..Len(sessions) :
        LET s == sessions[i]
            ci == FindIndex(conversations, s.conv)
        IN  /\ s.kind = "chat" /\ s.pc = "read" /\ s.acc # ""
            /\ ci # 0
            /\ LET messages == conversations[ci].messages
                   n == Len(messages)
               IN  /\ n >= 2
                   /\ messages[n].id = s.target
                   /\ messages[n].content = s.acc
                   /\ messages[n - 1].role = "user"
                   /\ messages[n - 1].content = s.prompt

\* the text generation i is streaming and its signal has been aborted
StoppedWhileStreaming(i) ==
    /\ sessions[i].kind = "chat"
    /\ sessions[i].pc = "read"
    /\ sessions[i].signal \in aborted

\* C30: after stopGenerating during a streaming text generation no delta of
\* a later chunk is applied to the target message: the next step of the
\* session is its end, which writes the text received before the stop
\* followed by the cancellation notice and returns to Idle
C30_NoDeltaAfterStop ==
    [][\A i \in 1..Len(sessions) :
          StoppedWhileStreaming(i) =>
              LET s == sessions[i] IN
              /\ Len(sessions') = Len(sessions)
              /\ \A m \in MessageIn(s.conv, s.target) :
                     \A n \in MessageIn(s.conv, s.target)' :
                         n.content \in {m.content, s.acc \o StoppedNotice}
              /\ sessions'[i] # s =>
                     /\ sessions'[i].pc = "outer"
                     /\ sessions'[i].outcome = "cancelled"
                     /\ sessions'[i].deltas = s.deltas
                     /\ sessions'[i].acc = s.acc \o StoppedNotice
                     /\ ~isGenerating'
                     /\ abortController' = NULL]_vars

\* a text generation was stopped after a delta had been applied and has
\* ended with the cancellation notice behind the text received
C30_Witness ==
    \E i \in 1..Len(sessions) :
        LET s == sessions[i] IN
        /\ s.kind = "chat" /\ s.pc = "outer" /\ s.outcome = "cancelled"
        /\ s.deltas # <<>>
        /\ s.signal \in aborted
        /\ \E m \in MessageIn(s.conv, s.target) :
               m.content = Concat(s.deltas) \o StoppedNotice

\* C31: the deltas of a running text generation reach its target message,
\* in the conversation where the placeholder was appended, also when the
\* user changes the active conversation during the stream: while the
\* stream is read and when it has ended, the target message holds the
\* concatenation of all deltas received so far
C31_DeltasReachTarget ==
    \A i \in 1..Len(sessions) :
        LET s == sessions[i] IN
        (/\ s.kind = "chat"
         /\ \/ s.pc = "read"
            \/ s.pc = "outer" /\ s.outcome = "normal")
        => \A m \in MessageIn(s.conv, s.target) : m.content = Concat(s.deltas)

\* the active conversation ends with a user text message followed by an
\* assistant message, and nothing is being generated
EndsWithRound ==
    LET ci == FindIndex(conversations, activeConversationId)
        messages == conversations[ci].messages
        n == Len(messages)
    IN  /\ ~isGenerating
        /\ ci # 0 /\ n >= 2
        /\ messages[n].role = "ai"
        /\ messages[n - 1].role = "user" /\ messages[n - 1].type = "text"

\* C32: regenerateResponse on a transcript that ends [user(P), assistant(X)]
\* removes X and then starts a text generation for P as a send does: the
\* prompt is appended again as a new user message, followed by the new
\* assistant message, so the transcript ends [user(P), user(P),
\* assistant(Y)] and has one message more than before, and it still does
\* when the new generation has ended
C32_RegenerateAppendsPromptAgain ==
    /\ [][(EndsWithRound /\ regenerateResponse /\ nextId' # nextId) =>
            LET before == conversations[FindIndex(conversations,
                              activeConversationId)].messages
                after == conversations'[FindIndex(conversations',
                              activeConversationId')].messages
                n == Len(before)
                P == before[n - 1].content
            IN  /\ activeConversationId' = activeConversationId
                /\ Len(after) = n + 1
                /\ SubSeq(after, 1, n - 1) = SubSeq(before, 1, n - 1)
                /\ after[n].role = "user" /\ after[n].type = "text"
                /\ after[n].content = P
                /\ after[n].id # before[n - 1].id
                /\ after[n + 1].role = "ai"
                /\ after[n + 1].id \notin {before[k].id : k \in 1..n}]_vars
    /\ [](\A i \in 1..Len(sessions) :
            LET s == sessions[i]
                ci == FindIndex(conversations, s.conv)
            IN  (s.caller = "regen" /\ s.pc = "outer" /\ s.requested /\ ci # 0)
                => LET messages == conversations[ci].messages
                       n == Len(messages)
                   IN  /\ n >= 3
                       /\ messages[n].id = s.target /\ messages[n].role = "ai"
                       /\ messages[n - 1].role = "user"
                       /\ messages[n - 1].content = s.prompt
                       /\ messages[n - 2].role = "user"
                       /\ messages[n - 2].content = s.prompt)

\* a regeneration has ended normally with deltas in its new assistant
\* message, behind the prompt stored twice
C32_Witness ==
    \E i \in 1..Len(sessions) :
        LET s == sessions[i]
            ci == FindIndex(conversations, s.conv)
        IN  /\ s.caller = "regen" /\ s.pc = "outer" /\ s.outcome = "normal"
            /\ s.deltas # <<>>
            /\ ci # 0
            /\ LET messages == conversations[ci].messages IN
               /\ Len(messages) = 3
               /\ messages[1].content = messages[2].content
               /\ messages[3].content = Concat(s.deltas)

\* the session waits for its response, for a chunk of its stream or for an
\* error body
Suspended(s) ==
    s.pc \in {"fetch", "read", "errbody", "pfetch", "orfetch", "orerr", "orjson"}

\* C33: a controller in STATE.abortController implies isGenerating, and at
\* every suspension point of a session the signal the session listens to is
\* the one of the stored controller, so a stop issued there cancels it
C33_ControllerOfSession ==
    /\ abortController # NULL => isGenerating
    /\ \A i \in 1..Len(sessions) :
           Suspended(sessions[i]) =>
               /\ abortController = sessions[i].signal
               /\ isGenerating

\* a session is suspended in its stream with its controller stored
C33_Witness ==
    \E i \in 1..Len(sessions) :
        /\ sessions[i].pc = "read"
        /\ sessions[i].deltas # <<>>
        /\ abortController = sessions[i].signal
        /\ sessions[i].signal \notin aborted

\* the continuation of handleSendMessage or regenerateResponse behind its
\* await runs: the catch and finally blocks of the caller
OuterFinalization == \E i \in 1..Len(sessions) : Outer(i)

\* C34: the finally blocks of handleSendMessage and regenerateResponse,
\* which lower isGenerating again and, in handleSendMessage, clear the
\* controller again, never lower the flag or clear the controller of a
\* different generation: when they run no other generation has been
\* started, and a controller still stored is the one of the ending session
C34_OuterFinalizationIsOwn ==
    [][OuterFinalization =>
          /\ \A j \in 1..Len(sessions) : sessions[j].pc # "outer" => ~Suspended(sessions[j])
          /\ Cardinality({ j \in 1..Len(sessions) : sessions[j].pc = "outer" }) = 1
          /\ \A j \in 1..Len(sessions') : ~Suspended(sessions'[j])
          /\ abortController # NULL =>
                 \E i \in 1..Len(sessions) :
                     sessions[i].pc = "outer" /\ abortController = sessions[i].signal
          /\ ~isGenerating']_vars

\* a text generation has ended with its deltas stored and its caller has
\* run its finally block: no session is left and the coordinator is idle
C34_Witness ==
    /\ sessions = <<>>
    /\ ~isGenerating /\ abortController = NULL
    /\ \E m \in AllMessages : m.role = "ai" /\ m.content = "Hi there" /\ ~m.error

\* C35: after any sequence of new-conversation, load, delete, clear-all,
\* send and regenerate operations the active conversation id is null or the
\* id of a conversation of the list; deleting the active conversation and
\* clearing all conversations set it to null
C35_ActiveIdIsPresent ==
    /\ [](activeConversationId = NULL \/ activeConversationId \in ConversationIds)
    /\ [][/\ deleteConversation(activeConversationId, TRUE)
             => activeConversationId' = NULL /\ conversations' # conversations
          /\ clearAllConversations(TRUE)
             => activeConversationId' = NULL /\ conversations' = <<>>]_vars

\* the active conversation has been deleted and another one is still stored
C35_Witness ==
    /\ activeConversationId = NULL
    /\ \E c \in 1..Len(conversations) : conversations[c].messages # <<>>

\* the ids of a list of conversations, in order
IdsOf(convs) == [c \in 1..Len(convs) |-> convs[c].id]

\* no id occurs twice in the sequence
Distinct(ids) == \A j, k \in 1..Len(ids) : ids[j] = ids[k] => j = k

\* C36: the conversation ids of the list are pairwise distinct after any
\* sequence of operations; saveConversation replaces the entry with the
\* same id in place when there is one and inserts at the front only when
\* there is none, so saving a conversation again never duplicates it
C36_ConversationIdsDistinct ==
    /\ Distinct(IdsOf(conversations))
    /\ \A c \in 1..Len(conversations) :
           LET changed == [conversations[c] EXCEPT !.title = "saved again"]
               once == saveConversation(conversations, changed)
           IN  /\ once = [conversations EXCEPT ![c] = changed]
               /\ saveConversation(once, changed) = once
    /\ LET new == [id |-> nextId, title |-> "New Chat", messages |-> <<>>]
           once == saveConversation(conversations, new)
       IN  /\ once = <<new>> \o conversations
           /\ saveConversation(once, new) = once
           /\ Distinct(IdsOf(once))

\* two conversations are stored and one of them has been saved again for
\* each of its messages
C36_Witness ==
    /\ Len(conversations) >= 2
    /\ \E c \in 1..Len(conversations) : Len(conversations[c].messages) >= 2

\* C37: when the configured image provider is neither pollinations nor
\* openrouter, an image generation issues no request, uses no fallback and
\* finalizes its target message as type text with error true and the
\* failure as its detail
C37_UnknownProviderFinalized ==
    \A i \in 1..Len(sessions) :
        LET s == sessions[i] IN
        (/\ s.kind = "image" /\ s.pc = "outer"
         /\ settings.imageProvider \notin {"pollinations", "openrouter"})
        => /\ ~s.requested
           /\ ~s.fallback
           /\ \A m \in MessageIn(s.conv, s.target) :
                  /\ m.type = "text"
                  /\ m.error = TRUE
                  /\ m.errorMessage = NoUrlFailure

\* C38: for every order of listenToCloudSettings, first snapshot, error and
\* stopListeningToCloudSettings, at most one cloud settings listener is
\* registered at a time, and when stopListeningToCloudSettings has returned
\* none is registered, so that a snapshot never changes STATE.settings
\* while the user is signed out
C38_OneListenerStopDetaches ==
    /\ [](listeners <= 1)
    /\ [][AuthSignedOut => listeners' = 0]_vars
    /\ [][~auth.isLoggedIn /\ Snapshot => settings' = settings]_vars

\* C39: global settings are written by the admin only: saveSettings called
\* while isAdmin is false leaves STATE.settings, the locally stored settings
\* and the cloud settings unchanged, also behind its await, and
\* saveCloudSettings writes to the database only when isAdmin is true
C39_AdminOnlySettings ==
    /\ [][\A form \in SettingsChoices, masked, csrfOk, db, ok \in BOOLEAN :
            (~auth.isAdmin /\ saveSettings(form, masked, csrfOk, db, ok))
            => UNCHANGED <<settings, localSettings, cloudSettings, saving>>]_vars
    /\ [](\A a \in {auth, [auth EXCEPT !.isAdmin = ~@]}, db, ok \in BOOLEAN :
            \A value \in SettingsChoices :
                saveCloudSettings(a, db, ok, value) # cloudSettings => a.isAdmin)
    /\ [][(\E form \in SettingsChoices, masked, csrfOk, db, ok \in BOOLEAN :
              saveSettings(form, masked, csrfOk, db, ok)) /\ cloudSettings' # cloudSettings
          => auth.isAdmin /\ cloudSettings' = {settings'}]_vars

\* the save of an admin has written the settings of the panel to the
\* database and waits for the answer, the local storage not yet written
C39_Witness ==
    /\ saving
    /\ auth.isAdmin
    /\ cloudSettings = {settings}
    /\ localSettings # {settings}

=============================================================================
